---------------------------- MODULE Spec2Model ----------------------------
(***************************************************************************)
(* Model of the IIR filter design core of liquid (src/filter/src/iirdes.c). *)
(*                                                                         *)
(* Four entry points are modelled, each under its own specification:       *)
(*   SpecPair     liquid_cplxpair and liquid_cplxpair_cleanup              *)
(*   SpecSos      iirdes_dzpk2sosf (calls liquid_cplxpair twice)           *)
(*   SpecBilinear bilinear_zpkf, in a small binary floating-point format   *)
(*   SpecIirdes   iirdes, the design orchestrator                          *)
(*                                                                         *)
(* Arrays are functions on 0..n-1, as in the C source.  A complex value is *)
(* a record [re, im].                                                      *)
(***************************************************************************)
EXTENDS Integers, Sequences, FiniteSets, TLC

VARIABLES
    pc,         \* position of the running call
    z,          \* liquid_cplxpair: input array _z
    tol,        \* liquid_cplxpair: _tol
    p,          \* liquid_cplxpair: output array _p; each entry carries the
                \* index of the input element it was copied from (src)
    paired,     \* liquid_cplxpair: paired[]
    k,          \* liquid_cplxpair: number of entries of _p written so far
    num_pairs,  \* liquid_cplxpair: num_pairs
    warned,     \* liquid_cplxpair: indices for which the warning was printed
    cleanups,   \* number of times liquid_cplxpair_cleanup was entered
    zd,         \* iirdes_dzpk2sosf: digital zeros _zd
    pd,         \* iirdes_dzpk2sosf: digital poles _pd
    kd,         \* iirdes_dzpk2sosf: digital gain _kd
    zp,         \* iirdes_dzpk2sosf: zp[], the zeros grouped by liquid_cplxpair
    pp,         \* iirdes_dzpk2sosf: pp[], the poles grouped by liquid_cplxpair
    B,          \* output numerator _B: the written indices and what they hold
    A,          \* output denominator _A: the written indices and what they hold
    ftype,      \* iirdes: _ftype
    btype,      \* iirdes: _btype
    format,     \* iirdes: _format
    n_in,       \* iirdes: _n as passed by the caller
    order,      \* iirdes: _n, which the band transform doubles
    fc,         \* iirdes: _fc, in units of 1/(2*FreqRes)
    f0,         \* iirdes: _f0, in units of 1/(2*FreqRes)
    Ap,         \* iirdes: _Ap
    As,         \* iirdes: _As
    nza,        \* iirdes: number of analog zeros
    k0,         \* iirdes: nominal digital gain, "one" or "ripple"
    za,         \* iirdes: analog zeros
    pa,         \* iirdes: analog poles
    calls,      \* iirdes: the functions called and stages run so far, in order
    m,          \* bilinear_zpkf: _m, the frequency pre-warping factor
    idx,        \* bilinear_zpkf: the loop index i
    G,          \* bilinear_zpkf: G
    pnum,       \* bilinear_zpkf: the values of 1 + pm at line 252, by index
    pden        \* bilinear_zpkf: the values of 1 - pm at line 252, by index

pairVars == <<z, tol, p, paired, k, num_pairs, warned, cleanups>>
sosVars == <<zd, pd, kd, zp, pp>>
outVars == <<B, A>>
argVars == <<ftype, btype, format, n_in, fc, f0, Ap, As>>
desVars == <<order, nza, k0, za, pa, calls>>
bilVars == <<m, idx, G, pnum, pden>>
vars == <<pc, pairVars, sosVars, outVars, argVars, desVars, bilVars>>

-----------------------------------------------------------------------------
(* Bounds and value sets *)

\* largest array length _n
MaxN == 4

\* real and imaginary parts the inputs are drawn from
ReVals == {-1, 0, 1}
ImVals == {-2, 0, 2}
Values == [re : ReVals, im : ImVals]

\* tolerances a caller passes
TolVals == {-1, 0, 1, 2}

\* what a never-written entry of an array may hold
Garbage == { [re |-> 0, im |-> 2], [re |-> -1, im |-> 0] }

-----------------------------------------------------------------------------
(* Complex arithmetic *)

Abs(x) == IF x < 0 THEN -x ELSE x

Cplx(r, i) == [re |-> r, im |-> i]

\* conjf
Conj(x) == [x EXCEPT !.im = -x.im]

\* unary minus
CNeg(x) == [re |-> -x.re, im |-> -x.im]

CAdd(x, y) == [re |-> x.re + y.re, im |-> x.im + y.im]

CMul(x, y) == [re |-> x.re * y.re - x.im * y.im, im |-> x.re * y.im + x.im * y.re]

Min(S) == CHOOSE x \in S : \A y \in S : x <= y

Arrays(S, n) == [0 .. n-1 -> S]

ArraysUpTo(S, n) == UNION { Arrays(S, len) : len \in 0 .. n }

\* length of an array
Size(a) == Cardinality(DOMAIN a)

-----------------------------------------------------------------------------
(* liquid_cplxpair: the pairing pass *)

\* the test that skips an element in both loops of the pairing pass
NearReal(v, t) == Abs(v.im) < t

\* the test that makes two elements a conjugate pair
IsPair(a, b, t) == Abs(a.im + b.im) < t /\ Abs(a.re - b.re) < t

\* the inner loop: the first j that pairs with i, or -1 when the loop ends
\* without a break
FindPartner(zz, t, prd, i) ==
    LET cand == { j \in DOMAIN zz :
                    /\ j # i
                    /\ ~prd[j]
                    /\ ~NearReal(zz[j], t)
                    /\ IsPair(zz[i], zz[j], t) }
    IN  IF cand = {} THEN -1 ELSE Min(cand)

\* an entry of _p holding value v copied from input index s
Entry(v, s) == [re |-> v.re, im |-> v.im, src |-> s]

\* an entry of _p holding a value no input element was copied to
Foreign(v) == Entry(v, -1)

\* the locals of liquid_cplxpair at line 76, with the output array as given
Locals(arr) == [ p |-> arr, paired |-> [i \in DOMAIN arr |-> FALSE], k |-> 0,
                num_pairs |-> 0, warned |-> {} ]

\* the outer loop from index i on; st = [p, paired, k, num_pairs, warned]
RECURSIVE PairLoop(_, _, _, _)
PairLoop(zz, t, st, i) ==
    IF i >= Size(zz) THEN st
    ELSE IF st.paired[i] \/ NearReal(zz[i], t) THEN PairLoop(zz, t, st, i + 1)
    ELSE LET j == FindPartner(zz, t, st.paired, i)
         IN  IF j = -1 THEN PairLoop(zz, t, st, i + 1)
             ELSE PairLoop(zz, t,
                    [ p         |-> [st.p EXCEPT ![st.k]     = Entry(zz[i], i),
                                                 ![st.k + 1] = Entry(zz[j], j)],
                      paired    |-> [st.paired EXCEPT ![i] = TRUE, ![j] = TRUE],
                      k         |-> st.k + 2,
                      num_pairs |-> st.num_pairs + 1,
                      warned    |-> st.warned ],
                    i + 1)

-----------------------------------------------------------------------------
(* liquid_cplxpair: the pass over the remaining unpaired values *)

\* the test that prints the warning instead of copying the element
CannotBePaired(v, t) == v.im > t

\* the loop from index i on; st = [p, paired, k, num_pairs, warned]
RECURSIVE LeftoverLoop(_, _, _, _)
LeftoverLoop(zz, t, st, i) ==
    IF i >= Size(zz) THEN st
    ELSE IF st.paired[i] THEN LeftoverLoop(zz, t, st, i + 1)
    ELSE IF CannotBePaired(zz[i], t)
         THEN LeftoverLoop(zz, t, [st EXCEPT !.warned = @ \cup {i}], i + 1)
         ELSE LeftoverLoop(zz, t,
                [st EXCEPT !.p      = [@ EXCEPT ![st.k] = Entry(zz[i], i)],
                           !.paired = [@ EXCEPT ![i] = TRUE],
                           !.k      = @ + 1],
                i + 1)

-----------------------------------------------------------------------------
(* liquid_cplxpair_cleanup *)

\* an entry whose value is replaced, its provenance kept
WithValue(e, v) == [e EXCEPT !.re = v.re, !.im = v.im]

\* the first loop without the choice of the negative imaginary element: the
\* first element of each pair is kept as found
RECURSIVE ConjLoopKeepFirst(_, _, _)
ConjLoopKeepFirst(arr, np, i) ==
    IF i >= np THEN arr
    ELSE ConjLoopKeepFirst(
            [arr EXCEPT ![2*i + 1] = WithValue(arr[2*i + 1], Conj(arr[2*i]))], np, i + 1)

\* first loop: perfect conjugates, negative imaginary element first
RECURSIVE ConjLoop(_, _, _)
ConjLoop(arr, np, i) ==
    IF i >= np THEN arr
    ELSE LET a  == IF arr[2*i].im < 0 THEN arr[2*i] ELSE WithValue(arr[2*i], Conj(arr[2*i]))
             b  == WithValue(arr[2*i + 1], Conj(a))
         IN  ConjLoop([arr EXCEPT ![2*i] = a, ![2*i + 1] = b], np, i + 1)

\* the comparison of the pair sort
PairOutOfOrder(a, b) == a.re > b.im

\* the comparison of the sort of the pure-real values
RealOutOfOrder(a, b) == a.re > b.im

Swap(arr, i, j) == [arr EXCEPT ![i] = arr[j], ![j] = arr[i]]

\* second loop nest: sort the conjugate pairs
RECURSIVE SortPairsLoop(_, _, _, _)
SortPairsLoop(arr, np, i, j) ==
    IF i >= np THEN arr
    ELSE IF j >= np THEN SortPairsLoop(arr, np, i + 1, i + 2)
    ELSE IF PairOutOfOrder(arr[2*i], arr[2*j])
         THEN SortPairsLoop(Swap(Swap(arr, 2*i, 2*j), 2*i + 1, 2*j + 1), np, i, j + 1)
         ELSE SortPairsLoop(arr, np, i, j + 1)

\* third loop nest: sort the pure-real values
RECURSIVE SortRealsLoop(_, _, _, _)
SortRealsLoop(arr, n, i, j) ==
    IF i >= n THEN arr
    ELSE IF j >= n THEN SortRealsLoop(arr, n, i + 1, i + 2)
    ELSE IF RealOutOfOrder(arr[i], arr[j])
         THEN SortRealsLoop(Swap(arr, i, j), n, i, j + 1)
         ELSE SortRealsLoop(arr, n, i, j + 1)

-----------------------------------------------------------------------------
(* liquid_cplxpair as a state machine *)

\* an output array no entry of which has been written
Unwritten(n) == [s \in 0 .. n-1 |-> Foreign(Cplx(0, 0))]

\* the input validation
TolInvalidInverted(t) == t > 0

TolInvalid(t) == t < 0

\* no array, no call: the state of the entry points a specification leaves out
NoArray == << >>

PairIdle ==
    /\ z = NoArray /\ tol = 0 /\ p = NoArray /\ paired = NoArray
    /\ k = 0 /\ num_pairs = 0 /\ warned = {} /\ cleanups = 0

SosIdle == zd = NoArray /\ pd = NoArray /\ kd = Cplx(0, 0) /\ zp = NoArray /\ pp = NoArray

OutIdle == B = NoArray /\ A = NoArray

DesIdle ==
    /\ ftype = "" /\ btype = "" /\ format = "" /\ n_in = 0 /\ fc = 0 /\ f0 = 0
    /\ Ap = 0 /\ As = 0 /\ order = 0 /\ nza = 0 /\ k0 = "" /\ za = NoArray
    /\ pa = NoArray /\ calls = << >>

BilIdle == m = 0 /\ idx = 0 /\ G = 0 /\ pnum = NoArray /\ pden = NoArray

InitPair ==
    /\ pc = "cplxpair"
    /\ z \in ArraysUpTo(Values, MaxN)
    /\ tol \in TolVals
    /\ p = Unwritten(Size(z))
    /\ paired = [i \in DOMAIN z |-> FALSE]
    /\ k = 0
    /\ num_pairs = 0
    /\ warned = {}
    /\ cleanups = 0
    /\ SosIdle
    /\ OutIdle
    /\ DesIdle
    /\ BilIdle

\* lines 65-69: a negative tolerance ends the call
CplxpairReject ==
    /\ pc = "cplxpair"
    /\ TolInvalid(tol)
    /\ pc' = "exit"
    /\ UNCHANGED <<pairVars, sosVars, outVars, argVars, desVars, bilVars>>

\* lines 71-116: the pairing pass, then the pass over the unpaired values
Passes(zz, t, arr) == LeftoverLoop(zz, t, PairLoop(zz, t, Locals(arr), 0), 0)

\* the output array when liquid_cplxpair_cleanup reads it: the entries
\* k..n-1 were never written and hold whatever the array held, g
AsRead(st, g) == [s \in DOMAIN st.p |-> IF s < st.k THEN st.p[s] ELSE Foreign(g[s])]

\* lines 71-119: both passes, up to the call of liquid_cplxpair_cleanup
CplxpairPasses ==
    /\ pc = "cplxpair"
    /\ ~TolInvalid(tol)
    /\ \E st \in { Passes(z, tol, p) } :
       \E g \in [st.k .. Size(z) - 1 -> Garbage] :
           /\ p' = AsRead(st, g)
           /\ paired' = st.paired
           /\ k' = st.k
           /\ num_pairs' = st.num_pairs
           /\ warned' = st.warned
    /\ cleanups' = cleanups + 1
    /\ pc' = "cleanup"
    /\ UNCHANGED <<z, tol, sosVars, outVars, argVars, desVars, bilVars>>

\* lines 134-178: liquid_cplxpair_cleanup(_p, _n, num_pairs)
CplxpairCleanup(arr, n, np) ==
    SortRealsLoop(SortPairsLoop(ConjLoop(arr, np, 0), np, 0, 1), n, 2 * np, 2 * np + 1)

Cleanup ==
    /\ pc = "cleanup"
    /\ p' = CplxpairCleanup(p, Size(z), num_pairs)
    /\ pc' = "done"
    /\ UNCHANGED <<z, tol, paired, k, num_pairs, warned, cleanups, sosVars, outVars, argVars, desVars, bilVars>>

NextPair ==
    \/ CplxpairReject
    \/ CplxpairPasses
    \/ Cleanup

SpecPair == InitPair /\ [][NextPair]_vars

-----------------------------------------------------------------------------
(* iirdes_dzpk2sosf *)

\* largest filter order _n handed to an emitter
MaxOrder == 3

\* the zeros a caller passes, in units of half the pairing
\* tolerance: a conjugate pair, two real values, and a conjugate pair whose
\* imaginary parts are smaller than the tolerance
SosValues ==
    { Cplx(1, 2), Cplx(1, -2), Cplx(-1, 0), Cplx(0, 0), Cplx(1, 1), Cplx(1, -1) }

\* the poles a caller passes: a conjugate pair and a real value
SosPoleValues == { Cplx(1, 2), Cplx(1, -2), Cplx(-1, 0) }

\* the gains a caller passes
KdValues == { Cplx(2, 0), Cplx(3, 2) }

\* line 332: tol = 1e-6f, counted in units of 0.5e-6
SosTol == 2

\* lines 345-346
OddOrder(n) == n % 2

SemiLength(n) == (n - OddOrder(n)) \div 2

\* an assignment to entry i of an output buffer
Write(f, i, v) == (i :> v) @@ f

\* crealf
Re(x) == x.re

\* lines 367-383: the loop over the second-order sections, from section i on;
\* ba = [B, A]
RECURSIVE SectionLoop(_, _, _, _, _)
SectionLoop(ba, zarr, parr, L, i) ==
    IF i >= L THEN ba
    ELSE LET p0 == CNeg(parr[2*i])
             p1 == CNeg(parr[2*i + 1])
             z0 == CNeg(zarr[2*i])
             z1 == CNeg(zarr[2*i + 1])
         IN  SectionLoop(
               [ A |-> Write(Write(Write(ba.A, 3*i, 1), 3*i + 1, Re(CAdd(p0, p1))),
                             3*i + 2, Re(CMul(p0, p1))),
                 B |-> Write(Write(Write(ba.B, 3*i, 1), 3*i + 1, Re(CAdd(z0, z1))),
                             3*i + 2, Re(CMul(z0, z1))) ],
               zarr, parr, L, i + 1)

\* lines 385-397: the trailing first-order section of an odd order; the
\* assignment of a complex value to a float keeps its real part
TrailingSection(ba, zarr, parr, n) ==
    LET i == SemiLength(n)
    IN  IF OddOrder(n) = 0 THEN ba
        ELSE [ A |-> Write(Write(Write(ba.A, 3*i, 1), 3*i + 1, Re(CNeg(parr[n - 1]))),
                           3*i + 2, 0),
               B |-> Write(Write(Write(ba.B, 3*i, 1), 3*i + 1, Re(CNeg(zarr[n - 1]))),
                           3*i + 2, 0) ]

\* lines 399-402: the gain of the first element
GainOnEverySection(ba, g) ==
    [ba EXCEPT !.B = [i \in DOMAIN ba.B |-> ba.B[i] * Re(g)]]

AdjustGain(ba, g) ==
    [ba EXCEPT !.B = [@ EXCEPT ![0] = @ * Re(g), ![1] = @ * Re(g), ![2] = @ * Re(g)]]

\* lines 365-402
SosCoefficients(ba, zarr, parr, n, g) ==
    AdjustGain(TrailingSection(SectionLoop(ba, zarr, parr, SemiLength(n), 0),
                               zarr, parr, n), g)

InitSos ==
    /\ pc = "sos_zeros"
    /\ \E n \in 1 .. MaxOrder :
         /\ zd \in Arrays(SosValues, n)
         /\ pd \in Arrays(SosPoleValues, n)
    /\ kd \in KdValues
    /\ zp = Unwritten(Size(zd))
    /\ pp = Unwritten(Size(pd))
    /\ OutIdle
    /\ PairIdle
    /\ DesIdle
    /\ BilIdle

\* lines 334-336: liquid_cplxpair(_zd,_n,tol,zp); zp is a fresh local array
SosPairZeros ==
    /\ pc = "sos_zeros"
    /\ \E st \in { Passes(zd, SosTol, zp) } :
       \E g \in [st.k .. Size(zd) - 1 -> Garbage] :
           zp' = CplxpairCleanup(AsRead(st, g), Size(zd), st.num_pairs)
    /\ pc' = "sos_poles"
    /\ UNCHANGED <<zd, pd, kd, pp, outVars, pairVars, argVars, desVars, bilVars>>

\* lines 338-340: liquid_cplxpair(_pd,_n,tol,pp); pp is a fresh local array
SosPairPoles ==
    /\ pc = "sos_poles"
    /\ \E st \in { Passes(pd, SosTol, pp) } :
       \E g \in [st.k .. Size(pd) - 1 -> Garbage] :
           pp' = CplxpairCleanup(AsRead(st, g), Size(pd), st.num_pairs)
    /\ pc' = "sos_emit"
    /\ UNCHANGED <<zd, pd, kd, zp, outVars, pairVars, argVars, desVars, bilVars>>

\* lines 344-402
SosEmit ==
    /\ pc = "sos_emit"
    /\ \E ba \in { SosCoefficients([B |-> B, A |-> A], zp, pp, Size(zd), kd) } :
         /\ B' = ba.B
         /\ A' = ba.A
    /\ pc' = "sos_done"
    /\ UNCHANGED <<sosVars, pairVars, argVars, desVars, bilVars>>

NextSos ==
    \/ SosPairZeros
    \/ SosPairPoles
    \/ SosEmit

SpecSos == InitSos /\ [][NextSos]_vars

-----------------------------------------------------------------------------
(* Single-precision arithmetic, scaled down *)

\* A float is an integer count of units of 2^-FracBits with at most Precision
\* significant bits; every operation rounds its exact result to the nearest
\* float, ties to even, as IEEE 754 does (float: 24 significant bits).  The
\* exponent has no upper limit here: overflow is left out.  Results below one
\* unit round to zero, as on underflow.
Precision == 3

FracBits == 4

RECURSIVE Pow2(_)
Pow2(e) == IF e = 0 THEN 1 ELSE 2 * Pow2(e - 1)

RECURSIVE BitLen(_)
BitLen(x) == IF x = 0 THEN 0 ELSE 1 + BitLen(x \div 2)

\* 1.0f
One == Pow2(FracBits)

\* the float nearest to the rational num/den units (den > 0)
RoundRat(num, den) ==
    LET a    == Abs(num)
        q    == a \div den
        e    == IF q < Pow2(Precision) THEN 0 ELSE BitLen(q) - Precision
        d    == den * Pow2(e)
        f    == a \div d
        r    == a - f * d
        up   == 2 * r > d \/ (2 * r = d /\ f % 2 = 1)
        mag  == (IF up THEN f + 1 ELSE f) * Pow2(e)
    IN  IF num < 0 THEN -mag ELSE mag

Fl(x) == RoundRat(x, 1)

FAdd(x, y) == Fl(x + y)

FSub(x, y) == Fl(x - y)

FMul(x, y) == RoundRat(x * y, One)

\* a float complex; fin is FALSE for the result of a division by zero and
\* for everything computed from it
FC(r, i) == [re |-> r, im |-> i, fin |-> TRUE]

NonFinite == [re |-> 0, im |-> 0, fin |-> FALSE]

\* float complex * float
FCScale(x, y) == IF x.fin THEN FC(FMul(x.re, y), FMul(x.im, y)) ELSE NonFinite

\* 1 + x and 1 - x
OnePlus(x) == IF x.fin THEN FC(FAdd(One, x.re), x.im) ELSE NonFinite

OneMinus(x) == IF x.fin THEN FC(FSub(One, x.re), -x.im) ELSE NonFinite

\* float complex / float complex, each part the float nearest to the quotient
FCDiv(x, y) ==
    IF ~x.fin \/ ~y.fin \/ (y.re = 0 /\ y.im = 0) THEN NonFinite
    ELSE LET d == y.re * y.re + y.im * y.im
         IN  FC(RoundRat((x.re * y.re + x.im * y.im) * One, d),
                RoundRat((x.im * y.re - x.re * y.im) * One, d))

\* float complex * float complex
FCMul(x, y) ==
    IF ~x.fin \/ ~y.fin THEN NonFinite
    ELSE FC(FSub(FMul(x.re, y.re), FMul(x.im, y.im)),
            FAdd(FMul(x.re, y.im), FMul(x.im, y.re)))

-----------------------------------------------------------------------------
(* bilinear_zpkf *)

\* largest number of analog poles _npa
MaxPoles == 2

\* the analog poles, analog zeros and pre-warping factors a caller passes
PoleValues ==
    { FC(r, i) : r \in {-1, -One, -4 * One, -14 * One, 0}, i \in {0, One} }

ZeroValues == { FC(0, One), FC(0, 0) }

WarpValues == {0, 1, One, 14 * One}

\* line 251 and the numerator of line 252: 1 + _pa[i]*_m
PoleNumSwapped(x, w) == OneMinus(FCScale(x, w))

PoleNum(x, w) == OnePlus(FCScale(x, w))

\* line 251 and the denominator of line 252: 1 - _pa[i]*_m
PoleDen(x, w) == OneMinus(FCScale(x, w))

\* lines 243-248: the digital zero of index i
DigitalZero(zarr, nz, w, i) ==
    IF i < nz
    THEN FCDiv(OnePlus(FCScale(zarr[i], w)), OneMinus(FCScale(zarr[i], w)))
    ELSE FC(-One, 0)

\* the gain correction with the ratio upside down
GainStepInverted(g, pv, zv) == FCMul(g, FCDiv(OneMinus(zv), OneMinus(pv)))

\* line 255: G *= (1 - _pd[i])/(1 - _zd[i])
GainStep(g, pv, zv) == FCMul(g, FCDiv(OneMinus(pv), OneMinus(zv)))

InitBilinear ==
    /\ pc = "bilinear_zpkf"
    /\ \E nv \in 1 .. MaxPoles :
         /\ pa \in Arrays(PoleValues, nv)
         /\ nza \in 0 .. nv
    /\ za \in Arrays(ZeroValues, nza)
    /\ m \in WarpValues
    /\ k0 = FC(One, 0)
    /\ idx = 0
    /\ G = k0
    /\ zd = NoArray
    /\ pd = NoArray
    /\ pnum = NoArray
    /\ pden = NoArray
    /\ kd = NonFinite
    /\ zp = NoArray /\ pp = NoArray
    /\ ftype = "" /\ btype = "" /\ format = "" /\ n_in = 0 /\ fc = 0 /\ f0 = 0
    /\ Ap = 0 /\ As = 0 /\ order = 0 /\ calls = << >>
    /\ OutIdle
    /\ PairIdle

\* lines 241-256: one iteration of the loop
BilinearStep ==
    /\ pc = "bilinear_zpkf"
    /\ idx < Size(pa)
    /\ \E zv \in { DigitalZero(za, nza, m, idx) } :
       \E nu \in { PoleNum(pa[idx], m) } :
       \E de \in { PoleDen(pa[idx], m) } :
       \E pv \in { FCDiv(nu, de) } :
           /\ zd' = Write(zd, idx, zv)
           /\ pnum' = Write(pnum, idx, nu)
           /\ pden' = Write(pden, idx, de)
           /\ pd' = Write(pd, idx, pv)
           /\ G' = GainStep(G, pv, zv)
    /\ idx' = idx + 1
    /\ UNCHANGED <<pc, m, kd, zp, pp, nza, k0, za, pa, order, calls, argVars, outVars, pairVars>>

\* line 257: *_kd = G
BilinearReturn ==
    /\ pc = "bilinear_zpkf"
    /\ idx >= Size(pa)
    /\ kd' = G
    /\ pc' = "bilinear_done"
    /\ UNCHANGED <<zd, pd, zp, pp, desVars, bilVars, argVars, outVars, pairVars>>

NextBilinear ==
    \/ BilinearStep
    \/ BilinearReturn

SpecBilinear == InitBilinear /\ [][NextBilinear]_vars

-----------------------------------------------------------------------------
(* iirdes_dzpk2tff *)

\* lines 294-297 and 304-307: the entries both loops assign, i = 0 .. _n;
\* what polycf_expandroots computes is left open ("coef")
TffCoefficients(nn) == [i \in 0 .. nn |-> "coef"]

-----------------------------------------------------------------------------
(* iirdes *)

\* frequencies are counted in units of 1/(2*FreqRes): 0.5 is FreqRes
FreqRes == 3

Half == FreqRes

FilterTypes == {"BUTTER", "CHEBY1", "CHEBY2", "ELLIP", "BESSEL"}

BandTypes == {"LOWPASS", "HIGHPASS", "BANDPASS", "BANDSTOP"}

Formats == {"TF", "SOS"}

\* lines 459-474: the message of the first test that fails, or "" when the
\* arguments pass
ValidationErrorFcInclusive(fcv, f0v, apv, asv, nv) ==
    IF fcv < 0 \/ fcv > Half THEN "cutoff frequency out of range"
    ELSE IF f0v < 0 \/ f0v > Half THEN "center frequency out of range"
    ELSE IF apv <= 0 THEN "pass-band ripple out of range"
    ELSE IF asv <= 0 THEN "stop-band ripple out of range"
    ELSE IF nv = 0 THEN "filter order must be > 0"
    ELSE ""

ValidationError(fcv, f0v, apv, asv, nv) ==
    IF fcv <= 0 \/ fcv >= Half THEN "cutoff frequency out of range"
    ELSE IF f0v < 0 \/ f0v > Half THEN "center frequency out of range"
    ELSE IF apv <= 0 THEN "pass-band ripple out of range"
    ELSE IF asv <= 0 THEN "stop-band ripple out of range"
    ELSE IF nv = 0 THEN "filter order must be > 0"
    ELSE ""

\* a pole or zero as a term: which root of the prototype it comes from
\* (kind "pole", "zero", or "pad" for a digital zero set to -1), whether the
\* bilinear transform has mapped it, whether it has been negated, and which
\* root of the band transform's quadratic it is (0: none, 1: +sqrt, 2: -sqrt)
Root(kind, i) == [kind |-> kind, idx |-> i, digital |-> FALSE, neg |-> FALSE, half |-> 0]

\* lines 496-532: the number of analog zeros each filter type sets
AnalogZeros(ft, nv) ==
    IF ft \in {"CHEBY2", "ELLIP"} THEN 2 * SemiLength(nv) ELSE 0

\* lines 500, 507, 514, 524, 530: the nominal digital gain
NominalGain(ft, nv) ==
    IF ft \in {"CHEBY1", "ELLIP"} /\ OddOrder(nv) = 0 THEN "ripple" ELSE "one"

\* the generator each case of the switch calls
Generator(ft) ==
    CASE ft = "BUTTER" -> "butter_azpkf"
      [] ft = "CHEBY1" -> "cheby1_azpkf"
      [] ft = "CHEBY2" -> "cheby2_azpkf"
      [] ft = "ELLIP"  -> "ellip_azpkf"
      [] ft = "BESSEL" -> "bessel_azpkf"

\* lines 479-484 and the generator's call: za holds nza zeros and pa holds
\* npa = _n poles, whose values the generator (not part of this file) sets
PrototypeZeros(nz) == [i \in 0 .. nz - 1 |-> Root("zero", i)]

PrototypePoles(nv) == [i \in 0 .. nv - 1 |-> Root("pole", i)]

\* lines 241-253, on terms: the digital zeros and poles of bilinear_zpkf
BilinearZeros(zarr, nz, nv) ==
    [i \in 0 .. nv - 1 |->
        IF i < nz THEN [zarr[i] EXCEPT !.digital = TRUE]
        ELSE [Root("pad", i) EXCEPT !.digital = TRUE]]

BilinearPoles(parr, nv) == [i \in 0 .. nv - 1 |-> [parr[i] EXCEPT !.digital = TRUE]]

\* lines 576-579
Negated(arr, nv) == [i \in DOMAIN arr |-> IF i < nv THEN [arr[i] EXCEPT !.neg = ~@] ELSE arr[i]]

\* the band transform taken from the roots as they were before the negation
Lp2bpBeforeNegation(arr, nv) ==
    [i \in 0 .. 2 * nv - 1 |-> [arr[i \div 2] EXCEPT !.half = 1 + (i % 2), !.neg = FALSE]]

\* lines 425-433: iirdes_dzpk_lp2bp, two roots for each root of the prototype
Lp2bp(arr, nv) ==
    [i \in 0 .. 2 * nv - 1 |-> [arr[i \div 2] EXCEPT !.half = 1 + (i % 2)]]

\* lines 602-604 without the doubling of _n
TransformedOrderKept(nv) == nv

TransformedOrder(nv) == 2 * nv

\* the indices iirdes_dzpk2sosf assigns in _B and _A for order nn
SosWrittenB(nn) ==
    DOMAIN SosCoefficients([B |-> << >>, A |-> << >>],
                           [i \in 0 .. nn - 1 |-> Cplx(0, 0)],
                           [i \in 0 .. nn - 1 |-> Cplx(0, 0)], nn, Cplx(1, 0)).B

SosWrittenA(nn) ==
    DOMAIN SosCoefficients([B |-> << >>, A |-> << >>],
                           [i \in 0 .. nn - 1 |-> Cplx(0, 0)],
                           [i \in 0 .. nn - 1 |-> Cplx(0, 0)], nn, Cplx(1, 0)).A

InitIirdes ==
    /\ pc = "iirdes"
    /\ ftype \in FilterTypes \cup {"UNKNOWN"}
    /\ btype \in BandTypes
    /\ format \in Formats
    /\ n_in \in 0 .. MaxOrder
    /\ fc \in -1 .. FreqRes + 1
    /\ f0 \in -1 .. FreqRes + 1
    /\ Ap \in {-1, 0, 1}
    /\ As \in {-1, 0, 1}
    /\ order = n_in
    /\ nza = 0
    /\ k0 = "one"
    /\ za = NoArray
    /\ pa = NoArray
    /\ zd = NoArray
    /\ pd = NoArray
    /\ kd = "unset"
    /\ zp = NoArray
    /\ pp = NoArray
    /\ calls = << >>
    /\ OutIdle
    /\ PairIdle
    /\ BilIdle

\* lines 458-474
IirdesValidate ==
    /\ pc = "iirdes"
    /\ \E e \in { ValidationError(fc, f0, Ap, As, order) } :
         IF e = ""
         THEN pc' = "prototype" /\ calls' = calls
         ELSE pc' = "rejected" /\ calls' = Append(calls, "exit")
    /\ UNCHANGED <<order, nza, k0, za, pa, pairVars, sosVars, outVars, argVars, bilVars>>

\* lines 495-536: the switch over the filter type
IirdesPrototype ==
    /\ pc = "prototype"
    /\ IF ftype \in FilterTypes
       THEN /\ nza' = AnalogZeros(ftype, order)
            /\ k0' = NominalGain(ftype, order)
            /\ za' = PrototypeZeros(AnalogZeros(ftype, order))
            /\ pa' = PrototypePoles(order)
            /\ calls' = Append(calls, Generator(ftype))
            /\ pc' = "bilinear"
       ELSE /\ pc' = "rejected"
            /\ calls' = Append(calls, "exit")
            /\ UNCHANGED <<nza, k0, za, pa>>
    /\ UNCHANGED <<order, pairVars, sosVars, outVars, argVars, bilVars>>

\* lines 549-559
IirdesBilinear ==
    /\ pc = "bilinear"
    /\ zd' = BilinearZeros(za, nza, order)
    /\ pd' = BilinearPoles(pa, order)
    /\ kd' = k0
    /\ calls' = calls \o <<"iirdes_freqprewarp", "bilinear_zpkf">>
    /\ pc' = "negate"
    /\ UNCHANGED <<order, nza, k0, za, pa, zp, pp, pairVars, outVars, argVars, bilVars>>

\* lines 572-580
IirdesNegate ==
    /\ pc = "negate"
    /\ IF btype \in {"HIGHPASS", "BANDSTOP"}
       THEN /\ zd' = Negated(zd, order)
            /\ pd' = Negated(pd, order)
            /\ calls' = Append(calls, "negate")
       ELSE UNCHANGED <<zd, pd, calls>>
    /\ pc' = "transform"
    /\ UNCHANGED <<order, nza, k0, za, pa, kd, zp, pp, pairVars, outVars, argVars, bilVars>>

\* lines 582-605
IirdesTransform ==
    /\ pc = "transform"
    /\ IF btype \in {"BANDPASS", "BANDSTOP"}
       THEN /\ zd' = Lp2bp(zd, order)
            /\ pd' = Lp2bp(pd, order)
            /\ order' = TransformedOrder(order)
            /\ calls' = Append(calls, "iirdes_dzpk_lp2bp")
       ELSE UNCHANGED <<zd, pd, order, calls>>
    /\ pc' = "emit"
    /\ UNCHANGED <<nza, k0, za, pa, kd, zp, pp, pairVars, outVars, argVars, bilVars>>

\* lines 607-636
IirdesEmit ==
    /\ pc = "emit"
    /\ IF format = "TF"
       THEN /\ B' = TffCoefficients(order)
            /\ A' = TffCoefficients(order)
            /\ calls' = Append(calls, "iirdes_dzpk2tff")
       ELSE /\ B' = [i \in SosWrittenB(order) |-> "coef"]
            /\ A' = [i \in SosWrittenA(order) |-> "coef"]
            /\ calls' = Append(calls, "iirdes_dzpk2sosf")
    /\ pc' = "returned"
    /\ UNCHANGED <<order, nza, k0, za, pa, sosVars, pairVars, argVars, bilVars>>

NextIirdes ==
    \/ IirdesValidate
    \/ IirdesPrototype
    \/ IirdesBilinear
    \/ IirdesNegate
    \/ IirdesTransform
    \/ IirdesEmit

SpecIirdes == InitIirdes /\ [][NextIirdes]_vars

-----------------------------------------------------------------------------
(* Properties of liquid_cplxpair *)

\* the slots of p that hold input element i
SlotsOf(i) == { s \in DOMAIN p : p[s].src = i }

\* the input indices the pairing pass left unpaired: those copied to no pair slot
UnpairedByPass == { i \in DOMAIN z : \A s \in SlotsOf(i) : s >= 2 * num_pairs }

\* every non-real value of the input occurs as often as its conjugate
ConjSymmetric(zz) ==
    \A i \in DOMAIN zz : zz[i].im # 0 =>
        Cardinality({ j \in DOMAIN zz : zz[j] = zz[i] })
          = Cardinality({ j \in DOMAIN zz : zz[j] = Conj(zz[i]) })

\* C1: pairing totality.  When liquid_cplxpair returns for a tolerance >= 0,
\* all n output entries have been filled and every input element stands in
\* exactly one output entry (none dropped, none duplicated).
C1_PairingTotality ==
    (pc = "done" /\ tol >= 0) =>
        /\ k = Size(z)
        /\ \A i \in DOMAIN z : Cardinality(SlotsOf(i)) = 1

\* C2: for a conjugate-symmetric input (read in the strongest sense: every
\* non-real value occurs exactly as often as its conjugate) and every accepted
\* tolerance (tol >= 0), no "cannot be paired" warning is printed, every
\* non-real element ends up in a pair slot, and the number of paired entries
\* is even.
C2_SymmetricInputPairs ==
    (pc = "done" /\ tol >= 0 /\ ConjSymmetric(z)) =>
        /\ warned = {}
        /\ \A i \in DOMAIN z : z[i].im # 0 => i \notin UnpairedByPass
        /\ (2 * num_pairs) % 2 = 0

\* C3: when liquid_cplxpair returns for a conjugate-symmetric input, the pairs
\* in the first 2*num_pairs entries are in ascending order of real part.
C3_PairsAscending ==
    (pc = "done" /\ tol >= 0 /\ ConjSymmetric(z)) =>
        \A i, j \in 0 .. num_pairs - 1 : i < j => p[2*i].re <= p[2*j].re

\* C4: when liquid_cplxpair returns, the real leftovers in entries
\* 2*num_pairs .. n-1 are in ascending order.  Stated for the runs in which
\* every one of these entries was written and holds a purely real value, so
\* that a violation is the sort's own.
C4_RealsAscending ==
    (pc = "done" /\ k = Size(z)
       /\ \A i \in 2 * num_pairs .. Size(z) - 1 : p[i].im = 0) =>
        \A i, j \in 2 * num_pairs .. Size(z) - 1 : i < j => p[i].re <= p[j].re

\* C5: every element the pairing pass left unpaired whose imaginary magnitude
\* exceeds tol has the warning printed for it and is still copied to the
\* output as a real leftover; the call runs to completion.
C5_UnpairableWarnedAndKept ==
    pc = "done" =>
        \A i \in UnpairedByPass : Abs(z[i].im) > tol =>
            /\ i \in warned
            /\ \E s \in 2 * num_pairs .. Size(z) - 1 : p[s].src = i

\* C10: a call with a negative tolerance ends at the validation: no entry of
\* the output array is written and the cleanup is never entered.
C10_NegativeTolRejected ==
    (tol < 0 /\ pc # "cplxpair") =>
        /\ pc = "exit"
        /\ p = Unwritten(Size(z))
        /\ k = 0
        /\ cleanups = 0

C10_Witness == tol < 0 /\ pc = "exit" /\ Size(z) = MaxN

\* C12: cleanup canonical form.  When liquid_cplxpair returns, in every pair
\* slot i < num_pairs entry 2i+1 is the exact conjugate of entry 2i and
\* entry 2i has strictly negative imaginary part, whatever the order and the
\* asymmetry of the two elements in the input.
C12_CanonicalPairs ==
    pc = "done" =>
        \A i \in 0 .. num_pairs - 1 :
            /\ p[2*i + 1].re = p[2*i].re
            /\ p[2*i + 1].im = -p[2*i].im
            /\ p[2*i].im < 0

\* a pair found with its positive-imaginary element first and real parts
\* that differ by less than tol: the output pair is made from the first
C12_Witness ==
    /\ pc = "done"
    /\ Size(z) = 2 /\ tol = 2
    /\ z[0] = Cplx(0, 2) /\ z[1] = Cplx(-1, -2)
    /\ num_pairs = 1
    /\ p[0].re = 0 /\ p[0].im = -2
    /\ p[1].re = 0 /\ p[1].im = 2

-----------------------------------------------------------------------------
(* Properties of iirdes_dzpk2sosf *)

\* the three coefficients of section s that the grouped array arr stands for,
\* before any gain: a full section from entries 2s and 2s+1, the trailing
\* first-order section from the last entry
SectionOf(arr, s) ==
    IF s < SemiLength(Size(arr))
    THEN << 1,
            -(arr[2*s].re + arr[2*s + 1].re),
            arr[2*s].re * arr[2*s + 1].re - arr[2*s].im * arr[2*s + 1].im >>
    ELSE << 1, -arr[Size(arr) - 1].re, 0 >>

Sections == 0 .. SemiLength(Size(zd)) + OddOrder(Size(zd)) - 1

\* C8: gain placement.  When iirdes_dzpk2sosf returns, the three numerator
\* coefficients of section 0 are those of the first zero slot multiplied by
\* the (real part of the) gain; every other numerator section and every
\* denominator section is unscaled, so every other leading numerator
\* coefficient and every leading denominator coefficient is 1.  For n = 1
\* section 0 is the trailing first-order section.
C8_GainPlacement ==
    pc = "sos_done" =>
        /\ \A c \in 0 .. 2 : B[c] = kd.re * SectionOf(zp, 0)[c + 1]
        /\ \A s \in Sections \ {0} : \A c \in 0 .. 2 : B[3*s + c] = SectionOf(zp, s)[c + 1]
        /\ \A s \in Sections : \A c \in 0 .. 2 : A[3*s + c] = SectionOf(pp, s)[c + 1]
        /\ \A s \in Sections \ {0} : B[3*s] = 1
        /\ \A s \in Sections : A[3*s] = 1

\* order 1: the gain has been applied to the single first-order section
C8_Witness ==
    /\ pc = "sos_done"
    /\ Size(zd) = 1
    /\ kd.re = 3
    /\ zd[0] = Cplx(-1, 0)
    /\ B = (0 :> 3) @@ (1 :> 3) @@ (2 :> 0)

\* entries 2i and 2i+1 of a grouped array hold an exact conjugate pair of
\* non-real values, or two purely real values
PairOrReals(a, b) ==
    \/ a.im # 0 /\ b.re = a.re /\ b.im = -a.im
    \/ a.im = 0 /\ b.im = 0

\* the imaginary parts of the sum and of the product of two entries
ImSum(a, b) == a.im + b.im

ImProduct(a, b) == a.re * b.im + a.im * b.re

\* what the claim says of the grouped array arr made from the input zz
SlotsWellFormed(zz, arr) ==
    /\ \A i \in 0 .. SemiLength(Size(zz)) - 1 :
         /\ PairOrReals(arr[2*i], arr[2*i + 1])
         /\ ImSum(arr[2*i], arr[2*i + 1]) = 0
         /\ ImProduct(arr[2*i], arr[2*i + 1]) = 0
    /\ OddOrder(Size(zz)) = 1 => arr[Size(zz) - 1].im = 0

\* C14: for a zero or pole array in which every element is exactly real or
\* occurs as often as its exact conjugate, each section slot (entries 2i,
\* 2i+1) of the grouped array that iirdes_dzpk2sosf reads holds one exact
\* conjugate pair or two purely real values, for odd n the last entry is
\* purely real, and so the sum and the product of a slot's entries have
\* zero imaginary part.
C14_SlotsPairOrReal ==
    pc \in {"sos_emit", "sos_done"} =>
        /\ ConjSymmetric(zd) => SlotsWellFormed(zd, zp)
        /\ ConjSymmetric(pd) => SlotsWellFormed(pd, pp)

-----------------------------------------------------------------------------
(* Properties of iirdes *)

\* the arguments the specification of iirdes allows
ArgumentsValid ==
    /\ 0 < fc /\ fc < FreqRes
    /\ 0 <= f0 /\ f0 <= FreqRes
    /\ Ap > 0
    /\ As > 0
    /\ n_in >= 1
    /\ ftype \in FilterTypes

Generators == { "butter_azpkf", "cheby1_azpkf", "cheby2_azpkf", "ellip_azpkf", "bessel_azpkf" }

Called(f) == \E i \in DOMAIN calls : calls[i] = f

PostOrder == IF btype \in {"BANDPASS", "BANDSTOP"} THEN 2 * n_in ELSE n_in

ExpectedCalls ==
    <<Generator(ftype), "iirdes_freqprewarp", "bilinear_zpkf">>
      \o (IF btype \in {"HIGHPASS", "BANDSTOP"} THEN <<"negate">> ELSE << >>)
      \o (IF btype \in {"BANDPASS", "BANDSTOP"} THEN <<"iirdes_dzpk_lp2bp">> ELSE << >>)
      \o <<IF format = "TF" THEN "iirdes_dzpk2tff" ELSE "iirdes_dzpk2sosf">>

IsPrefix(s, t) == Len(s) <= Len(t) /\ SubSeq(t, 1, Len(s)) = s

\* the roots handed to the emitter: all of them mapped by the bilinear
\* transform, negated exactly for high-pass and band-stop, and, exactly for
\* band-pass and band-stop, the two band-transform roots of each of the n
\* prototype roots in turn
RootsAsStaged(arr) ==
    /\ Size(arr) = PostOrder
    /\ \A i \in DOMAIN arr :
         /\ arr[i].digital
         /\ arr[i].neg <=> btype \in {"HIGHPASS", "BANDSTOP"}
         /\ IF btype \in {"BANDPASS", "BANDSTOP"}
            THEN arr[i].half = 1 + (i % 2) /\ arr[i].idx = i \div 2
            ELSE arr[i].half = 0 /\ arr[i].idx = i

\* C11: stage order.  An accepted call makes no call before its validation
\* has passed, then runs generator, bilinear transform, negation (if and only
\* if high-pass or band-stop), band transform (if and only if band-pass or
\* band-stop; the order doubles) and exactly one emitter, in this order; for
\* band-stop every one of the 2n roots descends from a negated prototype
\* root, and the emitter is handed the post-transform order.
C11_StageOrder ==
    ArgumentsValid =>
        /\ IsPrefix(calls, ExpectedCalls)
        /\ pc = "iirdes" => calls = << >>
        /\ pc = "emit" => order = PostOrder /\ RootsAsStaged(zd) /\ RootsAsStaged(pd)
        /\ pc = "returned" =>
             /\ calls = ExpectedCalls
             /\ order = PostOrder
             /\ RootsAsStaged(zd) /\ RootsAsStaged(pd)

\* a band-stop design of order 2 has returned: negation, then the band
\* transform, then the SOS emitter with order 4
C11_Witness ==
    /\ pc = "returned"
    /\ btype = "BANDSTOP" /\ format = "SOS" /\ ftype = "ELLIP" /\ n_in = 2
    /\ calls = <<"ellip_azpkf", "iirdes_freqprewarp", "bilinear_zpkf",
                 "negate", "iirdes_dzpk_lp2bp", "iirdes_dzpk2sosf">>
    /\ order = 4
    /\ \A i \in 0 .. 3 : pd[i].neg /\ zd[i].neg

-----------------------------------------------------------------------------
(* Properties of bilinear_zpkf *)

\* |x|^2
NormSq(x) == x.re * x.re + x.im * x.im

\* the poles computed so far from a stable analog pole with a positive warp
StableDone == { i \in DOMAIN pd : pa[i].re < 0 /\ m > 0 }

InBand(x, w) ==
    /\ Abs(x.re) * w * Pow2(Precision) >= One * One
    /\ Abs(x.re) * w <= Pow2(Precision - 1) * One * One

BilinearImage(x, w) == FCDiv(OnePlus(FCScale(x, w)), OneMinus(FCScale(x, w)))

\* the nominal gain multiplied, for each index below i in order, by
\* (1 - pd)/(1 - zd) of the digital pole and zero stored at that index
RECURSIVE GainUpTo(_)
GainUpTo(i) ==
    IF i = 0 THEN k0
    ELSE FCMul(GainUpTo(i - 1), FCDiv(OneMinus(pd[i - 1]), OneMinus(zd[i - 1])))

\* C13: when bilinear_zpkf returns for n analog poles and nza <= n analog
\* zeros, exactly the n entries 0 .. n-1 of zd and of pd are written; zd[i]
\* is the bilinear image of za[i] for i < nza and exactly -1 for
\* nza <= i < n; and the gain stored is the nominal gain multiplied, index by
\* index in order, by (1 - pd[i])/(1 - zd[i]) of the digital pole and zero
\* computed at that index.  While the loop runs the same holds of the
\* indices done so far.
C13_ZerosPadAndGain ==
    /\ DOMAIN zd = 0 .. idx - 1
    /\ DOMAIN pd = 0 .. idx - 1
    /\ \A i \in DOMAIN zd :
         zd[i] = IF i < nza THEN BilinearImage(za[i], m) ELSE FC(-One, 0)
    /\ \A i \in DOMAIN pd : pd[i] = BilinearImage(pa[i], m)
    /\ G = GainUpTo(idx)
    /\ pc = "bilinear_done" => idx = Size(pa) /\ kd = GainUpTo(Size(pa))

\* two poles at -1, one zero at j, m = 1: the zero maps to j, the second
\* digital zero is the pad -1, and the gain is 1 * 1/(1-j) * 1/2
C13_Witness ==
    /\ pc = "bilinear_done"
    /\ Size(pa) = 2 /\ nza = 1 /\ m = One
    /\ pa[0] = FC(-One, 0) /\ pa[1] = FC(-One, 0)
    /\ za[0] = FC(0, One)
    /\ zd[0] = FC(0, One)
    /\ zd[1] = FC(-One, 0)
    /\ kd = FC(One \div 4, One \div 4)

=============================================================================
